---- MODULE Spec2Model ----
(***************************************************************************)
(* Order-notification dispatch and handler assignment of the Somah         *)
(* backend: telegram-bot.js (sendOrderNotification, pollNotifications,     *)
(* the message and callback_query handlers), the checkout route, the       *)
(* order-status routes and the database triggers they rely on.             *)
(*                                                                         *)
(* Every await of the source is a point where other handlers may run, so   *)
(* each handler is a small process: one action per awaited call, whose     *)
(* outcome (result, error result, rejection) the environment chooses.      *)
(***************************************************************************)
EXTENDS Integers, Sequences, FiniteSets, TLC

VARIABLES
    CHAT_ID,        \* telegram-bot.js: let CHAT_ID = null
    greeting,       \* the chat that last received "bot is now active"
    orders,         \* table orders: order id -> row
    notifications,  \* table telegram_notifications: a set of rows
    clock,          \* rows inserted so far: the source of id and created_at
    sendCount,      \* order id -> order messages delivered to a chat so far
    lastSent,       \* the order message delivered last
    poll,           \* the running pollNotifications invocations
    checkout,       \* the checkout requests (POST /), one per order
    snd,            \* the running sendOrderNotification invocations, by caller
    statusReq,      \* the order-status request (PUT .../status) in progress
    failures,       \* transient I/O failures so far
    hist,           \* observations: who has called sendOrderNotification
    chatMessages,   \* the order messages in the chat that operators click on
    callbacks,      \* callback queries received by bot.on('callback_query')
    fmt,            \* the formatOrderMessage invocation that is looked at
    store_locations,\* table store_locations: store id -> its rows
    addresses,      \* table customer_addresses: a set of rows
    stock,          \* table products: product id -> stock
    order_items,    \* table order_items: order id -> its lines
    cart,           \* table cart_items and the add-to-cart requests
    cache           \* the MemoryCache instance and Date.now()

vars == <<CHAT_ID, greeting, orders, notifications, clock, sendCount, lastSent,
          poll, checkout, snd, statusReq, failures, hist, chatMessages, callbacks,
          fmt, store_locations, addresses, stock, order_items, cart, cache>>

\* The state outside the dispatcher and the status endpoints.
shop == <<addresses, stock, order_items, cart, cache>>

----------------------------------------------------------------------------
(* Bounds of the model *)

MaxFailures == 1      \* transient failures of database and chat calls
MaxStatusReqs == 1    \* order-status requests
MaxConcurrent == 2    \* requests and poll invocations in progress at a time
MaxClicks == 2        \* button clicks (callback queries) received
MaxBacklog == 13      \* rows of telegram_notifications a poll may find at start
MaxChatFailures == 2  \* failed calls while callback queries are handled
MaxLines == 3         \* order lines of a formatted order
MaxCents == 100       \* totals formatted: 20.00 up to 20.00 + MaxCents cents
MaxAddresses == 3     \* rows of customer_addresses ever inserted
MaxCartReqs == 2      \* add-to-cart requests of one user for one product
maxSize == 3          \* MemoryCache.maxSize, scaled down from 1000
MaxNow == 2           \* Date.now(), in units of one ttl second, from 1

(* Program constants *)

BATCH_LIMIT == 10     \* pollNotifications: .limit(10)

NULL == "null"
NOW == "now"          \* new Date().toISOString(): some non-null timestamp

\* The orders: one placed before the process started, one that goes through
\* checkout while it runs.  Ids are in the order of insertion.
InitialOrders == {1}
CheckoutOrders == {2}
OrderIds == InitialOrders \cup CheckoutOrders
\* pollNotifications is started by setInterval and once at start, never
\* awaited: two invocations that may overlap.
PollerIds == {<<"poll", 1>>, <<"poll", 2>>}
CheckoutIds == {<<"checkout", o>> : o \in CheckoutOrders}
Callers == PollerIds \cup CheckoutIds

\* const TEAM_MEMBERS = ['Khaled', 'Hamad', 'Malil']
TEAM_MEMBERS == <<"Khaled", "Hamad", "Malil">>

\* The order messages that are clicked on.
MsgIds == {1, 2}

\* The chats the bot can receive messages from: msg.chat.id, msg.chat.type.
Chats == { [id |-> "g1", type |-> "group"],
           [id |-> "g2", type |-> "supergroup"],
           [id |-> "u1", type |-> "private"] }

\* The status values the modelled requests carry (all are valid statuses).
RequestStatuses == {"confirmed", "cancelled"}
\* The three order-status endpoints: routes/products.js, api/admin, the
\* store owners' route.
StatusEndpoints == {"admin_route", "admin_api", "owner_route"}

NoRow == [exists |-> FALSE, status |-> NULL, has_items |-> FALSE]

----------------------------------------------------------------------------
(* The database *)

\* create_order_notification(): AFTER INSERT ON orders.
create_order_notification(table, o, now) ==
    table \cup { [id |-> now, order_id |-> o, notification_type |-> "new_order",
                  sent |-> FALSE, sent_at |-> NULL, created_at |-> now] }

\* The insert of the admin status endpoints for a confirmed order.
insert_order_update(table, o, now) ==
    table \cup { [id |-> now, order_id |-> o, notification_type |-> "order_update",
                  sent |-> FALSE, sent_at |-> NULL, created_at |-> now] }

\* telegram_notifications.order_id REFERENCES orders(id) ON DELETE CASCADE.
delete_order_cascade_all(table, o) == {}
delete_order_cascade(table, o) == { n \in table : n.order_id # o }

\* The order lines that the join oi.order_id = NEW.id AND oi.product_id = p.id
\* pairs with product p.
JoinRows(lines, p) == { i \in 1..Len(lines) : lines[i].product_id = p }

\* update_product_stock(): AFTER INSERT OR UPDATE ON orders.  UPDATE ... FROM
\* updates a product row once, from one of the lines joined with it; which
\* one is not determined when there are several.  The value is the set of
\* stock tables the statement may leave.
update_product_stock(table, lines, old, new) ==
    IF new = "confirmed" /\ old # "confirmed"
    THEN { [p \in DOMAIN table |->
              IF used[p] = 0 THEN table[p] ELSE table[p] - lines[used[p]].quantity]
           : used \in { f \in [DOMAIN table -> 0..Len(lines)] :
                          \A p \in DOMAIN table :
                              IF JoinRows(lines, p) = {} THEN f[p] = 0
                              ELSE f[p] \in JoinRows(lines, p) } }
    ELSE {table}

\* sendOrderNotification: update({sent: true, sent_at}).eq('order_id', orderId).
MarkSent(table, o) ==
    { IF n.order_id = o THEN [n EXCEPT !.sent = TRUE, !.sent_at = NOW] ELSE n
      : n \in table }

\* .order('created_at', { ascending: true }): each row stands after the rows
\* created before it (rows of the same instant, in the order of their ids).
CreatedBefore(x, y) ==
    \/ x.created_at < y.created_at
    \/ x.created_at = y.created_at /\ x.id < y.id
OrderByCreatedAt(S) ==
    [i \in 1..Cardinality(S) |->
        CHOOSE x \in S : Cardinality({ y \in S : CreatedBefore(y, x) }) = i - 1]

\* .limit(n)
LimitOff(s, n) == s
Limit(s, n) == IF Len(s) <= n THEN s ELSE SubSeq(s, 1, n)

\* .eq('sent', false).eq('notification_type', 'new_order')
UnsentUpdates(table) ==
    { n \in table : n.sent = FALSE /\ n.notification_type = "order_update" }
Unsent(table) ==
    { n \in table : n.sent = FALSE /\ n.notification_type = "new_order" }

\* The select of pollNotifications.
PollQuery(table) == Limit(OrderByCreatedAt(Unsent(table)), BATCH_LIMIT)

----------------------------------------------------------------------------
(* Transient failures: any awaited call may fail, MaxFailures times in all *)

MayFail == failures < MaxFailures
Fail == failures' = failures + 1
NoFail == failures' = failures

----------------------------------------------------------------------------
(* The handlers in progress: a new one starts while fewer than             *)
(* MaxConcurrent are.                                                      *)

InProgress ==
    { p \in PollerIds : poll[p].pc # "idle" }
    \cup { <<"checkout", o>> : o \in { q \in CheckoutOrders :
                                        checkout[q] \in {"items", "cart", "rollback", "notify"} } }
    \cup (IF statusReq.pc = "notify" THEN {<<"status", 0>>} ELSE {})

MayStart == Cardinality(InProgress) < MaxConcurrent

----------------------------------------------------------------------------
(* bot.on('message') *)

IsGroupAny(chat) == chat.type \in {"group", "supergroup", "private"}
IsGroup(chat) == chat.type = "group" \/ chat.type = "supergroup"

\* The chat id the handler leaves in CHAT_ID.
LearnChat(current, chat) ==
    IF IsGroup(chat) /\ (current = NULL \/ current # chat.id)
    THEN chat.id
    ELSE current

OnMessage(chat) ==
    /\ CHAT_ID' = LearnChat(CHAT_ID, chat)
    /\ greeting' = IF CHAT_ID' # CHAT_ID THEN CHAT_ID' ELSE greeting
    /\ UNCHANGED <<orders, notifications, clock, sendCount, lastSent, poll,
                   checkout, snd, statusReq, failures, hist, chatMessages, callbacks>>
    /\ UNCHANGED <<fmt, store_locations, shop>>

----------------------------------------------------------------------------
(* sendOrderNotification(orderId), called by c *)

\* outcome: how the call ended, for as long as the caller has not moved on.
IdleSend == [pc |-> "idle", orderId |-> 0, order |-> NoRow, outcome |-> NULL]

\* The synchronous start of the call: the CHAT_ID check, then the order query
\* is issued.  The value is the caller's new snd entry.
sendOrderNotificationUngated(orderId) ==
    [pc |-> "fetch", orderId |-> orderId, order |-> NoRow, outcome |-> NULL]
sendOrderNotification(orderId) ==
    IF CHAT_ID = NULL
    THEN [pc |-> "ret", orderId |-> orderId, order |-> NoRow, outcome |-> "no_chat"]
    ELSE [pc |-> "fetch", orderId |-> orderId, order |-> NoRow, outcome |-> NULL]

Kind(c) == c[1]

\* The message text, as far as the claims read it.
formatOrderMessage(orderId, order, handledBy) ==
    [order |-> orderId, items |-> order.has_items, handledBy |-> handledBy]

\* await supabaseAdmin.from('orders')...single(): an error result when the row
\* is missing or the call fails; then sendOrderNotification returns.
SendFetch(c) ==
    /\ snd[c].pc = "fetch"
    /\ \/ /\ orders[snd[c].orderId].exists
          /\ snd' = [snd EXCEPT ![c].pc = "send",
                                ![c].order = orders[snd[c].orderId]]
          /\ NoFail
       \/ /\ ~orders[snd[c].orderId].exists
          /\ snd' = [snd EXCEPT ![c].pc = "ret", ![c].outcome = "lookup_error"]
          /\ NoFail
       \/ /\ MayFail
          /\ snd' = [snd EXCEPT ![c].pc = "ret", ![c].outcome = "lookup_error"]
          /\ Fail
    /\ UNCHANGED <<CHAT_ID, greeting, orders, notifications, clock, sendCount,
                   lastSent, poll, checkout, statusReq, hist, chatMessages, callbacks>>
    /\ UNCHANGED <<fmt, store_locations, shop>>

\* try { await bot.sendMessage(...); <the update> } catch { }: where the
\* function goes on after the send.
AfterSendMessageAlways(delivered) == "mark"
AfterSendMessage(delivered) == IF delivered THEN "mark" ELSE "ret"

\* formatOrderMessage, then await bot.sendMessage(CHAT_ID, ...): a rejection of
\* either lands in the catch block and the function returns.
SendSend(c) ==
    /\ snd[c].pc = "send"
    /\ \/ /\ sendCount' = [sendCount EXCEPT ![snd[c].orderId] = @ + 1]
          /\ lastSent' = [chat |-> CHAT_ID,
                          text |-> formatOrderMessage(snd[c].orderId,
                                                      snd[c].order, NULL)]
          /\ snd' = [snd EXCEPT ![c].pc = AfterSendMessage(TRUE)]
          /\ NoFail
       \/ /\ MayFail
          /\ snd' = [snd EXCEPT ![c].pc = AfterSendMessage(FALSE),
                                ![c].outcome = "send_failed"]
          /\ UNCHANGED <<sendCount, lastSent>>
          /\ Fail
    /\ UNCHANGED <<CHAT_ID, greeting, orders, notifications, clock, poll,
                   checkout, statusReq, hist, chatMessages, callbacks>>
    /\ UNCHANGED <<fmt, store_locations, shop>>

\* await supabaseAdmin.from('telegram_notifications').update(...): the result
\* is not looked at, a rejection is caught; either way the function returns.
SendMark(c) ==
    /\ snd[c].pc = "mark"
    /\ \/ /\ notifications' = MarkSent(notifications, snd[c].orderId)
          /\ NoFail
       \/ /\ MayFail
          /\ UNCHANGED notifications
          /\ Fail
    /\ snd' = [snd EXCEPT ![c].pc = "ret", ![c].outcome = "sent"]
    /\ UNCHANGED <<CHAT_ID, greeting, orders, clock, sendCount, lastSent, poll,
                   checkout, statusReq, hist, chatMessages, callbacks>>
    /\ UNCHANGED <<fmt, store_locations, shop>>

----------------------------------------------------------------------------
(* pollNotifications, invocation p *)

IdlePoll == [pc |-> "idle", batch |-> <<>>, idx |-> 0]

\* for (const notification of notifications): item i of the batch is next.
\* Either the loop is over, or sendOrderNotification is called for the item
\* (its synchronous start runs in the same turn).
PollItemOnce(p, batch, i) ==
    IF i <= Len(batch) /\ i <= 1
    THEN /\ poll' = [poll EXCEPT ![p] = [pc |-> "call", batch |-> batch, idx |-> i]]
         /\ snd' = [snd EXCEPT ![p] = sendOrderNotification(batch[i].order_id)]
         /\ hist' = [hist EXCEPT !.calls = @ \cup {Kind(p)}]
    ELSE /\ poll' = [poll EXCEPT ![p] = IdlePoll]
         /\ snd' = [snd EXCEPT ![p] = IdleSend]
         /\ UNCHANGED hist
PollItem(p, batch, i) ==
    IF i <= Len(batch)
    THEN /\ poll' = [poll EXCEPT ![p] = [pc |-> "call", batch |-> batch, idx |-> i]]
         /\ snd' = [snd EXCEPT ![p] = sendOrderNotification(batch[i].order_id)]
         /\ hist' = [hist EXCEPT !.calls = @ \cup {Kind(p)}]
    ELSE /\ poll' = [poll EXCEPT ![p] = IdlePoll]
         /\ snd' = [snd EXCEPT ![p] = IdleSend]
         /\ UNCHANGED hist

\* A timer tick (or the initial poll): the select, then the first item; on an
\* error result or a rejection the invocation ends.
PollTick(p) ==
    /\ poll[p].pc = "idle"
    /\ MayStart
    /\ \/ /\ PollItem(p, PollQuery(notifications), 1)
          /\ NoFail
       \/ /\ MayFail
          /\ UNCHANGED <<poll, snd, hist>>
          /\ Fail
    /\ UNCHANGED <<CHAT_ID, greeting, orders, notifications, clock, sendCount,
                   lastSent, checkout, statusReq, chatMessages, callbacks>>
    /\ UNCHANGED <<fmt, store_locations, shop>>

\* sendOrderNotification has returned and the one-second wait is over: the
\* next item.
PollDelayEager(p) ==
    /\ poll[p].pc = "call"
    /\ PollItem(p, poll[p].batch, poll[p].idx + 1)
    /\ UNCHANGED <<CHAT_ID, greeting, orders, notifications, clock, sendCount,
                   lastSent, checkout, statusReq, failures, chatMessages, callbacks>>
    /\ UNCHANGED <<fmt, store_locations, shop>>
PollDelay(p) ==
    /\ poll[p].pc = "call"
    /\ snd[p].pc = "ret"
    /\ PollItem(p, poll[p].batch, poll[p].idx + 1)
    /\ UNCHANGED <<CHAT_ID, greeting, orders, notifications, clock, sendCount,
                   lastSent, checkout, statusReq, failures, chatMessages, callbacks>>
    /\ UNCHANGED <<fmt, store_locations, shop>>

----------------------------------------------------------------------------
(* Checkout: router.post('/') of the orders routes, for order o *)

\* insert into orders; the trigger adds the notification row.  Order ids are
\* handed out in sequence.
CheckoutInsertOrder(o) ==
    /\ checkout[o] = "start"
    /\ MayStart
    /\ \A q \in CheckoutOrders : q < o => checkout[q] # "start"
    /\ \/ /\ orders' = [orders EXCEPT ![o] = [exists |-> TRUE,
                                               status |-> "pending",
                                               has_items |-> FALSE]]
          /\ notifications' = create_order_notification(notifications, o, clock + 1)
          /\ clock' = clock + 1
          /\ checkout' = [checkout EXCEPT ![o] = "items"]
          /\ NoFail
       \/ /\ MayFail
          /\ checkout' = [checkout EXCEPT ![o] = "failed"]
          /\ UNCHANGED <<orders, notifications, clock>>
          /\ Fail
    /\ UNCHANGED <<CHAT_ID, greeting, sendCount, lastSent, poll, snd, statusReq,
                   hist, chatMessages, callbacks>>
    /\ UNCHANGED <<fmt, store_locations, shop>>

\* insert into order_items: on an error the order is rolled back.
CheckoutInsertItems(o) ==
    /\ checkout[o] = "items"
    /\ \/ /\ orders' = [orders EXCEPT ![o].has_items = TRUE]
          /\ checkout' = [checkout EXCEPT ![o] = "cart"]
          /\ NoFail
       \/ /\ MayFail
          /\ checkout' = [checkout EXCEPT ![o] = "rollback"]
          /\ UNCHANGED orders
          /\ Fail
    /\ UNCHANGED <<CHAT_ID, greeting, notifications, clock, sendCount, lastSent,
                   poll, snd, statusReq, hist, chatMessages, callbacks>>
    /\ UNCHANGED <<fmt, store_locations, shop>>

\* await supabaseAdmin.from('orders').delete().eq('id', order.id)
CheckoutRollback(o) ==
    /\ checkout[o] = "rollback"
    /\ orders' = [orders EXCEPT ![o] = NoRow]
    /\ notifications' = delete_order_cascade(notifications, o)
    /\ checkout' = [checkout EXCEPT ![o] = "failed"]
    /\ UNCHANGED <<CHAT_ID, greeting, clock, sendCount, lastSent, poll, snd,
                   statusReq, failures, hist, chatMessages, callbacks>>
    /\ UNCHANGED <<fmt, store_locations, shop>>

\* The cart is cleared, then sendOrderNotification(order.id) is called.
CheckoutNotify(o) ==
    /\ checkout[o] = "cart"
    /\ snd' = [snd EXCEPT ![<<"checkout", o>>] = sendOrderNotification(o)]
    /\ hist' = [hist EXCEPT !.calls = @ \cup {"checkout"}]
    /\ checkout' = [checkout EXCEPT ![o] = "notify"]
    /\ UNCHANGED <<CHAT_ID, greeting, orders, notifications, clock, sendCount,
                   lastSent, poll, statusReq, failures, chatMessages, callbacks>>
    /\ UNCHANGED <<fmt, store_locations, shop>>

\* res.json(order)
CheckoutRespond(o) ==
    /\ checkout[o] = "notify"
    /\ snd[<<"checkout", o>>].pc = "ret"
    /\ snd' = [snd EXCEPT ![<<"checkout", o>>] = IdleSend]
    /\ checkout' = [checkout EXCEPT ![o] = "done"]
    /\ UNCHANGED <<CHAT_ID, greeting, orders, notifications, clock, sendCount,
                   lastSent, poll, statusReq, failures, hist, chatMessages, callbacks>>
    /\ UNCHANGED <<fmt, store_locations, shop>>

----------------------------------------------------------------------------
(* The order-status endpoints: PUT .../status *)

IdleStatus == [pc |-> "idle", order |-> 0, status |-> NULL, endpoint |-> NULL,
               was |-> NULL, n |-> 0]

\* Whether the endpoint goes on to insert a notification row.
NotifiesOnConfirm(endpoint, status) ==
    status = "confirmed" /\ endpoint \in {"admin_route", "admin_api"}

\* update orders set status: an error result (no such row, or a failure)
\* ends the request with status 500.
StatusUpdate(o, s, e) ==
    /\ statusReq.pc \in {"idle", "done"}
    /\ statusReq.n < MaxStatusReqs
    /\ MayStart
    /\ \/ /\ orders[o].exists
          /\ orders' = [orders EXCEPT ![o].status = s]
          /\ stock' \in update_product_stock(stock, order_items[o],
                                             orders[o].status, s)
          /\ statusReq' = [pc |-> IF NotifiesOnConfirm(e, s) THEN "notify" ELSE "done",
                           order |-> o, status |-> s, endpoint |-> e,
                           was |-> orders[o].status, n |-> statusReq.n + 1]
          /\ NoFail
       \/ /\ ~orders[o].exists
          /\ statusReq' = [IdleStatus EXCEPT !.n = statusReq.n + 1]
          /\ UNCHANGED <<orders, stock>>
          /\ NoFail
       \/ /\ MayFail
          /\ statusReq' = [IdleStatus EXCEPT !.n = statusReq.n + 1]
          /\ UNCHANGED <<orders, stock>>
          /\ Fail
    /\ UNCHANGED <<CHAT_ID, greeting, notifications, clock, sendCount, lastSent,
                   poll, checkout, snd, hist, chatMessages, callbacks>>
    /\ UNCHANGED <<fmt, store_locations, addresses, order_items, cart, cache>>

\* The history row, the order details, then the insert into
\* telegram_notifications, whose result is not looked at; the response.
StatusNotify ==
    /\ statusReq.pc = "notify"
    /\ \/ /\ orders[statusReq.order].exists
          /\ notifications' = insert_order_update(notifications, statusReq.order,
                                                  clock + 1)
          /\ clock' = clock + 1
          /\ NoFail
       \/ /\ ~orders[statusReq.order].exists
          /\ UNCHANGED <<notifications, clock>>
          /\ NoFail
       \/ /\ MayFail
          /\ UNCHANGED <<notifications, clock>>
          /\ Fail
    /\ statusReq' = [statusReq EXCEPT !.pc = "done"]
    /\ UNCHANGED <<CHAT_ID, greeting, orders, sendCount, lastSent, poll,
                   checkout, snd, hist, chatMessages, callbacks>>
    /\ UNCHANGED <<fmt, store_locations, shop>>

----------------------------------------------------------------------------
(* The keyboards and the callback data *)

\* member.toLowerCase() of the team members.
toLowerCase(member) ==
    CASE member = "Khaled" -> "khaled"
      [] member = "Hamad" -> "hamad"
      [] member = "Malil" -> "malil"
      [] OTHER -> member

\* handler.charAt(0).toUpperCase() + handler.slice(1)
Capitalize(handler) ==
    CASE handler = "khaled" -> "Khaled"
      [] handler = "hamad" -> "Hamad"
      [] handler = "malil" -> "Malil"
      [] OTHER -> handler

\* Callback data is the sequence of its parts between the underscores:
\* `handle_${orderId}_${member.toLowerCase()}` and 'handled'.
HANDLED == <<"handled">>

createHandlerKeyboard(orderId) ==
    [k \in 1..Len(TEAM_MEMBERS) |->
        [text |-> <<"Handled by", TEAM_MEMBERS[k]>>,
         callback_data |-> <<"handle", orderId, toLowerCase(TEAM_MEMBERS[k])>>]]

createHandledKeyboard(handler) ==
    << [text |-> <<"Handled by", handler>>, callback_data |-> HANDLED] >>

NoMessage == [order |-> 0, text |-> formatOrderMessage(0, NoRow, NULL),
              reply_markup |-> <<>>]

\* The message sendOrderNotification sends for an order.
OrderMessage(orderId, order) ==
    [order |-> orderId, text |-> formatOrderMessage(orderId, order, NULL),
     reply_markup |-> createHandlerKeyboard(orderId)]

\* The notices answerCallbackQuery shows.
ALREADY_ASSIGNED_ALERT == [text |-> <<"This order is already assigned">>, show_alert |-> TRUE]
ALREADY_ASSIGNED == [text |-> <<"This order is already assigned">>, show_alert |-> FALSE]
ERROR_UPDATING_QUIET == [text |-> <<"Error updating order">>, show_alert |-> FALSE]
ERROR_UPDATING == [text |-> <<"Error updating order">>, show_alert |-> TRUE]
ERROR_OCCURRED == [text |-> <<"An error occurred">>, show_alert |-> TRUE]
AssignedNotice(handlerName) ==
    [text |-> <<"Order assigned to", handlerName>>, show_alert |-> FALSE]
NoNotice == [text |-> <<>>, show_alert |-> FALSE]

----------------------------------------------------------------------------
(* bot.on('callback_query'), one invocation per callback query *)

MayFailChat == failures < MaxChatFailures

\* The start of the handler, up to its first await.
\*   data === 'handled': the "already assigned" answer is on its way;
\*   action !== 'handle': return;
\*   no third part: handler is undefined and handler.charAt throws;
\*   otherwise the order query is on its way.
ReceiveCallback(m, data) ==
    LET base == [msg |-> m, data |-> data, pc |-> "done", handlerName |-> NULL,
                 order |-> NoRow, reply |-> NoNotice, notices |-> <<>>,
                 edits |-> 0, dbReads |-> 0, threw |-> FALSE,
                 fetchFailed |-> FALSE]
    IN  IF data = HANDLED
        THEN [base EXCEPT !.pc = "answer", !.reply = ALREADY_ASSIGNED]
        ELSE IF data[1] # "handle"
        THEN base
        ELSE IF Len(data) < 3
        THEN [base EXCEPT !.pc = "catch", !.threw = TRUE]
        ELSE [base EXCEPT !.pc = "fetch", !.handlerName = Capitalize(data[3])]

\* An operator clicks button k of message m; Telegram delivers the callback
\* query with the data of the button as the message shows it now.
Click(m, k) ==
    /\ Len(callbacks) < MaxClicks
    /\ k \in 1..Len(chatMessages[m].reply_markup)
    /\ callbacks' = Append(callbacks,
            ReceiveCallback(m, chatMessages[m].reply_markup[k].callback_data))
    /\ UNCHANGED <<CHAT_ID, greeting, orders, notifications, clock, sendCount,
                   lastSent, poll, checkout, snd, statusReq, failures, hist,
                   chatMessages>>
    /\ UNCHANGED <<fmt, store_locations, shop>>

\* Callback data that no button of the bot carries.
ForeignPayloads == { <<"noop">>, <<"assign", 1, "khaled">>, <<"handle">>, <<"handle", 1>> }

\* A callback query arrives whose data is not that of a current button.
Payload(m, data) ==
    /\ Len(callbacks) < MaxClicks
    /\ callbacks' = Append(callbacks, ReceiveCallback(m, data))
    /\ UNCHANGED <<CHAT_ID, greeting, orders, notifications, clock, sendCount,
                   lastSent, poll, checkout, snd, statusReq, failures, hist,
                   chatMessages, fmt, store_locations, shop>>

\* await supabaseAdmin.from('orders')...eq('id', orderId).single()
CallbackFetch(i) ==
    /\ callbacks[i].pc = "fetch"
    /\ \/ /\ orders[callbacks[i].data[2]].exists
          /\ callbacks' = [callbacks EXCEPT ![i].pc = "edit",
                                            ![i].dbReads = @ + 1,
                                            ![i].order = orders[callbacks[i].data[2]]]
          /\ NoFail
       \/ \* an error result: the alert answer, then return
          /\ ~orders[callbacks[i].data[2]].exists
          /\ callbacks' = [callbacks EXCEPT ![i].pc = "answer",
                                            ![i].dbReads = @ + 1,
                                            ![i].fetchFailed = TRUE,
                                            ![i].reply = ERROR_UPDATING]
          /\ NoFail
       \/ /\ MayFailChat
          /\ callbacks' = [callbacks EXCEPT ![i].pc = "answer",
                                            ![i].dbReads = @ + 1,
                                            ![i].fetchFailed = TRUE,
                                            ![i].reply = ERROR_UPDATING]
          /\ Fail
       \/ \* the call rejects: the catch block
          /\ MayFailChat
          /\ callbacks' = [callbacks EXCEPT ![i].pc = "catch",
                                            ![i].dbReads = @ + 1,
                                            ![i].fetchFailed = TRUE,
                                            ![i].threw = TRUE]
          /\ Fail
    /\ UNCHANGED <<CHAT_ID, greeting, orders, notifications, clock, sendCount,
                   lastSent, poll, checkout, snd, statusReq, hist, chatMessages>>
    /\ UNCHANGED <<fmt, store_locations, shop>>

\* bot.editMessageText(text, { chat_id, message_id, reply_markup }): the
\* messages of the chat afterwards.
editMessageTextAll(messages, m, text, reply_markup) ==
    [x \in DOMAIN messages |->
        [order |-> messages[x].order, text |-> text, reply_markup |-> reply_markup]]
editMessageText(messages, m, text, reply_markup) ==
    [messages EXCEPT ![m] =
        [order |-> @.order, text |-> text, reply_markup |-> reply_markup]]

\* formatOrderMessage(order, handlerName), then await bot.editMessageText(...)
\* on the message that was clicked; then the confirmation answer is on its way.
CallbackEdit(i) ==
    /\ callbacks[i].pc = "edit"
    /\ \/ /\ chatMessages' = editMessageText(chatMessages, callbacks[i].msg,
                formatOrderMessage(callbacks[i].data[2], callbacks[i].order,
                                   callbacks[i].handlerName),
                createHandledKeyboard(callbacks[i].handlerName))
          /\ callbacks' = [callbacks EXCEPT ![i].pc = "answer",
                                            ![i].edits = @ + 1,
                                            ![i].reply = AssignedNotice(callbacks[i].handlerName)]
          /\ NoFail
       \/ /\ MayFailChat
          /\ callbacks' = [callbacks EXCEPT ![i].pc = "catch", ![i].threw = TRUE]
          /\ UNCHANGED chatMessages
          /\ Fail
    /\ UNCHANGED <<CHAT_ID, greeting, orders, notifications, clock, sendCount,
                   lastSent, poll, checkout, snd, statusReq, hist>>
    /\ UNCHANGED <<fmt, store_locations, shop>>

\* await bot.answerCallbackQuery(callbackQuery.id, reply) in the try block
CallbackAnswer(i) ==
    /\ callbacks[i].pc = "answer"
    /\ \/ /\ callbacks' = [callbacks EXCEPT ![i].pc = "done",
                                            ![i].notices = Append(@, callbacks[i].reply)]
          /\ NoFail
       \/ /\ MayFailChat
          /\ callbacks' = [callbacks EXCEPT ![i].pc = "catch", ![i].threw = TRUE]
          /\ Fail
    /\ UNCHANGED <<CHAT_ID, greeting, orders, notifications, clock, sendCount,
                   lastSent, poll, checkout, snd, statusReq, hist, chatMessages>>
    /\ UNCHANGED <<fmt, store_locations, shop>>

\* catch (error): await bot.answerCallbackQuery(id, 'An error occurred'); a
\* rejection of this call is handled nowhere.
CallbackCatch(i) ==
    /\ callbacks[i].pc = "catch"
    /\ \/ /\ callbacks' = [callbacks EXCEPT ![i].pc = "done",
                                            ![i].notices = Append(@, ERROR_OCCURRED)]
          /\ NoFail
       \/ /\ MayFailChat
          /\ callbacks' = [callbacks EXCEPT ![i].pc = "unhandled"]
          /\ Fail
    /\ UNCHANGED <<CHAT_ID, greeting, orders, notifications, clock, sendCount,
                   lastSent, poll, checkout, snd, statusReq, hist, chatMessages>>
    /\ UNCHANGED <<fmt, store_locations, shop>>

----------------------------------------------------------------------------
(* JavaScript numbers: IEEE 754 doubles, computed exactly.  A natural is a   *)
(* sequence of limbs, least significant first; a double is m * 2^e with m    *)
(* below 2^53.  Only the non-negative finite values the money arithmetic of  *)
(* formatOrderMessage meets are covered.                                     *)

LimbBits == 14
LimbBase == 2^LimbBits
MantissaBits == 53

RECURSIVE BigNorm(_)
BigNorm(n) ==
    IF n = <<>> THEN <<>>
    ELSE IF n[Len(n)] = 0 THEN BigNorm(SubSeq(n, 1, Len(n) - 1))
    ELSE n

RECURSIVE BigFromInt(_)
BigFromInt(k) ==
    IF k = 0 THEN <<>> ELSE <<k % LimbBase>> \o BigFromInt(k \div LimbBase)

RECURSIVE BigToInt(_)
BigToInt(n) ==
    IF n = <<>> THEN 0 ELSE n[1] + LimbBase * BigToInt(Tail(n))

\* n * k + carry, for k and carry below the limb base
RECURSIVE BigMulSmall(_, _, _)
BigMulSmall(n, k, carry) ==
    IF n = <<>> THEN BigFromInt(carry)
    ELSE LET v == n[1] * k + carry
         IN  <<v % LimbBase>> \o BigMulSmall(Tail(n), k, v \div LimbBase)

RECURSIVE BigAddCarry(_, _, _)
BigAddCarry(a, b, carry) ==
    IF a = <<>> /\ b = <<>> THEN BigFromInt(carry)
    ELSE LET x == IF a = <<>> THEN 0 ELSE a[1]
             y == IF b = <<>> THEN 0 ELSE b[1]
             v == x + y + carry
         IN  <<v % LimbBase>>
             \o BigAddCarry(IF a = <<>> THEN a ELSE Tail(a),
                            IF b = <<>> THEN b ELSE Tail(b), v \div LimbBase)

BigAdd(a, b) == BigNorm(BigAddCarry(a, b, 0))

\* a - b - borrow, for a >= b
RECURSIVE BigSubBorrow(_, _, _)
BigSubBorrow(a, b, borrow) ==
    IF a = <<>> THEN <<>>
    ELSE LET y == IF b = <<>> THEN 0 ELSE b[1]
             v == a[1] - y - borrow
         IN  <<v % LimbBase>>
             \o BigSubBorrow(Tail(a), IF b = <<>> THEN b ELSE Tail(b),
                             IF v < 0 THEN 1 ELSE 0)

BigSub(a, b) == BigNorm(BigSubBorrow(a, b, 0))

\* -1, 0 or 1 as a is below, equal to or above b (both without leading zeros)
RECURSIVE BigCmp(_, _)
BigCmp(a, b) ==
    IF Len(a) # Len(b) THEN (IF Len(a) < Len(b) THEN -1 ELSE 1)
    ELSE IF a = <<>> THEN 0
    ELSE IF a[Len(a)] # b[Len(b)] THEN (IF a[Len(a)] < b[Len(b)] THEN -1 ELSE 1)
    ELSE BigCmp(SubSeq(a, 1, Len(a) - 1), SubSeq(b, 1, Len(b) - 1))

RECURSIVE BigMul(_, _)
BigMul(a, b) ==
    IF b = <<>> \/ a = <<>> THEN <<>>
    ELSE BigAdd(BigMulSmall(a, b[1], 0), BigNorm(<<0>> \o BigMul(a, Tail(b))))

\* the quotient of n by d, d below the limb base
RECURSIVE BigDivSmallRem(_, _, _)
BigDivSmallRem(n, d, rem) ==
    IF n = <<>> THEN <<>>
    ELSE LET v == rem * LimbBase + n[Len(n)]
         IN  BigDivSmallRem(SubSeq(n, 1, Len(n) - 1), d, v % d) \o <<v \div d>>

BigDivSmall(n, d) == BigNorm(BigDivSmallRem(n, d, 0))

RECURSIVE BigModSmallRem(_, _, _)
BigModSmallRem(n, d, rem) ==
    IF n = <<>> THEN rem
    ELSE BigModSmallRem(SubSeq(n, 1, Len(n) - 1), d,
                        (rem * LimbBase + n[Len(n)]) % d)

BigModSmall(n, d) == BigModSmallRem(n, d, 0)

BigShiftLeft(n, s) ==
    BigNorm([i \in 1..(s \div LimbBits) |-> 0]
            \o BigMulSmall(n, 2^(s % LimbBits), 0))

BigShiftRight(n, s) ==
    IF s \div LimbBits >= Len(n) THEN <<>>
    ELSE BigDivSmall(SubSeq(n, (s \div LimbBits) + 1, Len(n)), 2^(s % LimbBits))

RECURSIVE SmallBitLength(_)
SmallBitLength(k) == IF k = 0 THEN 0 ELSE 1 + SmallBitLength(k \div 2)

BigBitLength(n) ==
    IF n = <<>> THEN 0
    ELSE LimbBits * (Len(n) - 1) + SmallBitLength(n[Len(n)])

BigOne == <<1>>
DoubleZero == [m |-> <<>>, e |-> 0]

\* The double nearest to n * 2^e (+ a little more when sticky), ties to even.
RoundToDouble(n, e, sticky) ==
    LET len == BigBitLength(n)
    IN  IF len <= MantissaBits THEN [m |-> n, e |-> e]
        ELSE LET s == len - MantissaBits
                 q == BigShiftRight(n, s)
                 r == BigSub(n, BigShiftLeft(q, s))
                 c == BigCmp(r, BigShiftLeft(BigOne, s - 1))
                 up == \/ c = 1
                       \/ c = 0 /\ sticky
                       \/ c = 0 /\ q[1] % 2 = 1
             IN  [m |-> IF up THEN BigAdd(q, BigOne) ELSE q, e |-> e + s]

\* The number a decimal literal or numeric string with two decimals denotes:
\* the double nearest to cents / 100.
DoubleFromCents(cents) ==
    IF cents = 0 THEN DoubleZero
    ELSE LET n == BigShiftLeft(BigFromInt(cents), 5 * LimbBits)
         IN  RoundToDouble(BigDivSmall(n, 100), -(5 * LimbBits),
                           BigModSmall(n, 100) # 0)

\* x - y for x >= y
DoubleSub(x, y) ==
    LET e == IF x.e < y.e THEN x.e ELSE y.e
    IN  RoundToDouble(BigSub(BigShiftLeft(x.m, x.e - e), BigShiftLeft(y.m, y.e - e)),
                      e, FALSE)

DoubleMul(x, y) == RoundToDouble(BigMul(x.m, y.m), x.e + y.e, FALSE)

\* Number.prototype.toFixed(2): the integer n with n / 100 nearest to x, the
\* larger one of two; the string is n with two decimals, kept here as n.
toFixed(x) ==
    IF x.e >= 0 THEN BigToInt(BigShiftLeft(BigMulSmall(x.m, 100, 0), x.e))
    ELSE BigToInt(BigShiftRight(
             BigAdd(BigMulSmall(BigMulSmall(x.m, 100, 0), 2, 0),
                    BigShiftLeft(BigOne, -x.e)),
             1 - x.e))

----------------------------------------------------------------------------
(* formatOrderMessage(order, handledBy): the parts of the message the       *)
(* claims read, computed as the function computes them.  The function       *)
(* awaits one store_locations query per store, so it is a process of its    *)
(* own: fmt is the invocation in progress.                                  *)

DELIVERY_FEE == 20          \* order.total_amount - 20
COMMISSION_PERCENT == 5     \* amountAfterDeliveryFee * 0.05

\* The commission and the payout of a total of `total` cents, as rendered:
\* toFixed gives a string, which the subtraction turns into a number again.
FinancialBreakdown(total) ==
    LET amountAfterDeliveryFee ==
            DoubleSub(DoubleFromCents(total), DoubleFromCents(DELIVERY_FEE * 100))
        commission ==
            toFixed(DoubleMul(amountAfterDeliveryFee,
                              DoubleFromCents(COMMISSION_PERCENT)))
        storePayout ==
            toFixed(DoubleSub(amountAfterDeliveryFee, DoubleFromCents(commission)))
    IN  [commission |-> commission, storePayout |-> storePayout]

\* A JavaScript object used as a map is the sequence of its [key, value]
\* entries in insertion order.
HasKey(obj, key) == \E i \in 1..Len(obj) : obj[i].key = key

\* The value of a key that is a canonical array index ("7", "24"), else -1.
ArrayIndex(key) ==
    CASE key = "7" -> 7
      [] key = "24" -> 24
      [] OTHER -> -1

RECURSIVE SortByIndex(_)
SortByIndex(entries) ==
    IF entries = {} THEN <<>>
    ELSE LET first == CHOOSE x \in entries :
                        \A y \in entries : ArrayIndex(x.key) <= ArrayIndex(y.key)
         IN  <<first>> \o SortByIndex(entries \ {first})

IsNamed(entry) == ArrayIndex(entry.key) < 0

\* Object.entries(obj): the integer-like keys in ascending numeric order
\* first, then the other keys in insertion order.
ObjectEntries(obj) ==
    SortByIndex({ obj[i] : i \in { j \in 1..Len(obj) : ~IsNamed(obj[j]) } })
    \o SelectSeq(obj, IsNamed)

\* storeGroups: item.store_name -> the items of that name, in line order.
RECURSIVE storeGroups(_)
storeGroups(lines) ==
    IF lines = <<>> THEN <<>>
    ELSE LET rest == storeGroups(SubSeq(lines, 1, Len(lines) - 1))
             item == lines[Len(lines)]
         IN  IF HasKey(rest, item.store_name)
             THEN [i \in 1..Len(rest) |->
                      IF rest[i].key = item.store_name
                      THEN [rest[i] EXCEPT !.value = Append(@, item)]
                      ELSE rest[i]]
             ELSE Append(rest, [key |-> item.store_name, value |-> <<item>>])

\* uniqueStores: item.store_id -> item.store_name of the first item with that
\* id; items without a store_id are left out.
RECURSIVE uniqueStores(_)
uniqueStores(lines) ==
    IF lines = <<>> THEN <<>>
    ELSE LET rest == uniqueStores(SubSeq(lines, 1, Len(lines) - 1))
             item == lines[Len(lines)]
         IN  IF item.store_id # NULL /\ ~HasKey(rest, item.store_id)
             THEN Append(rest, [key |-> item.store_id, value |-> item.store_name])
             ELSE rest

IdleFormat == [pc |-> "idle", total |-> 0, lines |-> <<>>, details |-> <<>>,
               commission |-> 0, storePayout |-> 0, stores |-> <<>>,
               pickup |-> <<>>]

\* The call: the synchronous part up to the first store_locations query, or
\* up to the return when the order has no store to look up.
FormatStart ==
    /\ fmt.pc = "called"
    /\ fmt' = [fmt EXCEPT
          !.details = ObjectEntries(storeGroups(fmt.lines)),
          !.commission = FinancialBreakdown(fmt.total).commission,
          !.storePayout = FinancialBreakdown(fmt.total).storePayout,
          !.stores = ObjectEntries(uniqueStores(fmt.lines)),
          !.pc = IF uniqueStores(fmt.lines) = <<>> THEN "done" ELSE "pickup"]
    /\ UNCHANGED <<CHAT_ID, greeting, orders, notifications, clock, sendCount,
                   lastSent, poll, checkout, snd, statusReq, failures, hist,
                   chatMessages, callbacks, store_locations, shop>>

\* data: null of a query result.
NoData == [found |-> FALSE, location_type |-> NULL]

\* The entry added for the store whose query returned `data`.
PickupEntry(store, data) ==
    [store_id |-> store.key, store_name |-> store.value,
     kind |-> IF data.found /\ data.location_type # NULL
              THEN "location" ELSE "contact_owner"]

\* .from('store_locations').select('*').eq('store_id', storeId).single():
\* the row when there is exactly one, else an error result with data null.
Single(rows) == IF Len(rows) = 1 THEN rows[1] ELSE NoData

\* The await of the query for the next store returns (with the row, or with
\* an error result and no data) or rejects; then the entry is added and the
\* next query is issued, or the rest of the message is built and returned.
FormatPickup ==
    /\ fmt.pc = "pickup"
    /\ LET store == fmt.stores[Len(fmt.pickup) + 1]
           added(data) ==
               [fmt EXCEPT !.pickup = Append(@, PickupEntry(store, data)),
                           !.pc = IF Len(fmt.pickup) + 1 = Len(fmt.stores)
                                  THEN "done" ELSE "pickup"]
       IN  \/ /\ fmt' = added(Single(store_locations[store.key]))
              /\ NoFail
           \/ /\ MayFail
              /\ fmt' = added(NoData)
              /\ Fail
           \/ /\ MayFail
              /\ fmt' = [fmt EXCEPT !.pc = "threw"]
              /\ Fail
    /\ UNCHANGED <<CHAT_ID, greeting, orders, notifications, clock, sendCount,
                   lastSent, poll, checkout, snd, statusReq, hist,
                   chatMessages, callbacks, store_locations, shop>>

StoreIds == {"s1", "s2"}

----------------------------------------------------------------------------
(* Customer addresses: routes/addresses.js, each request one statement *)

UserIds == {"u1", "u2"}
AddressIds == 1..MaxAddresses

\* ensure_single_default_address(), BEFORE INSERT OR UPDATE ... WHEN
\* (NEW.is_default = TRUE): the other rows of the table after the trigger.
ensure_single_default_address_off(others, new) == others
ensure_single_default_address(others, new) ==
    IF new.is_default
    THEN { IF a.user_id = new.user_id THEN [a EXCEPT !.is_default = FALSE] ELSE a
           : a \in others }
    ELSE others

\* The ids of the rows whose flag the statement that wrote `new` has cleared.
Cleared(others, new) ==
    { a.id : a \in others \ ensure_single_default_address(others, new) }

\* POST /: insert into customer_addresses; is_default: is_default || false.
AddressCreate(u, is_default) ==
    /\ addresses.next \in AddressIds
    /\ LET new == [id |-> addresses.next, user_id |-> u, is_default |-> is_default]
       IN  addresses' =
              [rows |-> ensure_single_default_address(addresses.rows, new) \cup {new},
               next |-> addresses.next + 1,
               last |-> [op |-> "create", id |-> new.id,
                         cleared |-> Cleared(addresses.rows, new)]]
    /\ UNCHANGED <<CHAT_ID, greeting, orders, notifications, clock, sendCount,
                   lastSent, poll, checkout, snd, statusReq, failures, hist,
                   chatMessages, callbacks, fmt, store_locations,
                   stock, order_items, cart, cache>>

\* PUT /:id: update ... .eq('id', id).eq('user_id', userProfile.id).  When no
\* row matches, .single() gives an error and nothing is written.
AddressUpdate(u, id, is_default) ==
    /\ \E row \in addresses.rows :
          /\ row.id = id /\ row.user_id = u
          /\ LET new == [row EXCEPT !.is_default = is_default]
                 others == addresses.rows \ {row}
             IN  addresses' =
                    [addresses EXCEPT
                       !.rows = ensure_single_default_address(others, new) \cup {new},
                       !.last = [op |-> "update", id |-> id,
                                 cleared |-> Cleared(others, new)]]
    /\ UNCHANGED <<CHAT_ID, greeting, orders, notifications, clock, sendCount,
                   lastSent, poll, checkout, snd, statusReq, failures, hist,
                   chatMessages, callbacks, fmt, store_locations,
                   stock, order_items, cart, cache>>

\* DELETE /:id: delete ... .eq('id', id).eq('user_id', userProfile.id).
AddressDelete(u, id) ==
    /\ \E row \in addresses.rows : row.id = id /\ row.user_id = u
    /\ addresses' =
          [addresses EXCEPT
             !.rows = { a \in @ : ~(a.id = id /\ a.user_id = u) },
             !.last = [op |-> "delete", id |-> id, cleared |-> {}]]
    /\ UNCHANGED <<CHAT_ID, greeting, orders, notifications, clock, sendCount,
                   lastSent, poll, checkout, snd, statusReq, failures, hist,
                   chatMessages, callbacks, fmt, store_locations,
                   stock, order_items, cart, cache>>

NoAddresses == [rows |-> {}, next |-> 1,
                last |-> [op |-> NULL, id |-> 0, cleared |-> {}]]

----------------------------------------------------------------------------
(* Add to cart: router.post('/') of the cart routes and app.post('/api/cart'), *)
(* the requests of one user for one product                                   *)

CartReqIds == 1..MaxCartReqs
Quantities == {1, 2, 3}

IdleCartReq == [pc |-> "idle", quantity |-> 0, existingItem |-> NULL,
                result |-> NULL]
NoCart == [rows |-> <<>>, reqs |-> [r \in CartReqIds |-> IdleCartReq]]

\* const { data: existingItem } = await ...select('*').eq('user_id', ...)
\* .eq('product_id', product_id).single(): the row when exactly one matches;
\* with no row, with several, or when the call fails, data is null and the
\* error is not looked at.
AddToCartSelect(r, quantity) ==
    /\ cart.reqs[r].pc = "idle"
    /\ \/ /\ Len(cart.rows) = 1
          /\ cart' = [cart EXCEPT !.reqs[r] =
                        [pc |-> "update", quantity |-> quantity,
                         existingItem |-> cart.rows[1], result |-> NULL]]
          /\ NoFail
       \/ /\ Len(cart.rows) # 1
          /\ cart' = [cart EXCEPT !.reqs[r] =
                        [pc |-> "insert", quantity |-> quantity,
                         existingItem |-> NULL, result |-> NULL]]
          /\ NoFail
       \/ /\ MayFail
          /\ cart' = [cart EXCEPT !.reqs[r] =
                        [pc |-> "insert", quantity |-> quantity,
                         existingItem |-> NULL, result |-> NULL]]
          /\ Fail
    /\ UNCHANGED <<CHAT_ID, greeting, orders, notifications, clock, sendCount,
                   lastSent, poll, checkout, snd, statusReq, hist,
                   chatMessages, callbacks, fmt, store_locations,
                   addresses, stock, order_items, cache>>

\* update({ quantity: existingItem.quantity + quantity }).eq('id',
\* existingItem.id); on an error the response is 500.
AddToCartUpdate(r) ==
    /\ cart.reqs[r].pc = "update"
    /\ \/ /\ cart' = [cart EXCEPT
                !.rows = [i \in DOMAIN @ |->
                    IF @[i].id = cart.reqs[r].existingItem.id
                    THEN [@[i] EXCEPT !.quantity =
                            cart.reqs[r].existingItem.quantity + cart.reqs[r].quantity]
                    ELSE @[i]],
                !.reqs[r].pc = "done",
                !.reqs[r].result = "ok"]
          /\ NoFail
       \/ /\ MayFail
          /\ cart' = [cart EXCEPT !.reqs[r].pc = "done",
                                  !.reqs[r].result = "failed"]
          /\ Fail
    /\ UNCHANGED <<CHAT_ID, greeting, orders, notifications, clock, sendCount,
                   lastSent, poll, checkout, snd, statusReq, hist,
                   chatMessages, callbacks, fmt, store_locations,
                   addresses, stock, order_items, cache>>

\* insert({ user_id, product_id, quantity, ... }); on an error the response
\* is 500.
AddToCartInsert(r) ==
    /\ cart.reqs[r].pc = "insert"
    /\ \/ /\ cart' = [cart EXCEPT
                !.rows = Append(@, [id |-> Len(@) + 1,
                                        quantity |-> cart.reqs[r].quantity]),
                !.reqs[r].pc = "done",
                !.reqs[r].result = "ok"]
          /\ NoFail
       \/ /\ MayFail
          /\ cart' = [cart EXCEPT !.reqs[r].pc = "done",
                                  !.reqs[r].result = "failed"]
          /\ Fail
    /\ UNCHANGED <<CHAT_ID, greeting, orders, notifications, clock, sendCount,
                   lastSent, poll, checkout, snd, statusReq, hist,
                   chatMessages, callbacks, fmt, store_locations,
                   addresses, stock, order_items, cache>>

----------------------------------------------------------------------------
(* MemoryCache.  A Map is the sequence of its entries in insertion order. *)

CacheKeys == {"stores:all:all", "products:all:all:all", "cart:u1", "user:u1"}
CacheValues == {"data"}
TtlSeconds == {0, 1}

MapKeys(m) == { m[i].key : i \in DOMAIN m }
MapHas(m, key) == key \in MapKeys(m)
MapGet(m, key) == (CHOOSE i \in DOMAIN m : m[i].key = key)
\* Map.prototype.set: a present key keeps its place.
MapSet(m, key, value) ==
    IF MapHas(m, key)
    THEN [i \in DOMAIN m |-> IF m[i].key = key THEN [key |-> key, value |-> value]
                              ELSE m[i]]
    ELSE Append(m, [key |-> key, value |-> value])
\* Map.prototype.delete
MapDelete(m, key) == SelectSeq(m, LAMBDA e : e.key # key)

\* delete(key)
deleteValueOnly(c, key) ==
    [c EXCEPT !.cache = MapDelete(@, key)]
delete(c, key) ==
    [c EXCEPT !.cache = MapDelete(@, key), !.ttl = MapDelete(@, key)]

\* The key set() removes first: this.cache.keys().next().value when the cache
\* is full, else none.
firstKey(c) == IF Len(c.cache) >= maxSize THEN c.cache[1].key ELSE NULL

\* set(key, value, ttlSeconds)
set(c, key, value, ttlSeconds) ==
    LET room == IF Len(c.cache) >= maxSize THEN delete(c, firstKey(c)) ELSE c
    IN  [room EXCEPT !.cache = MapSet(@, key, value),
                     !.ttl = MapSet(@, key, c.now + ttlSeconds)]

\* get(key): an expired entry is deleted.
get(c, key) ==
    IF ~MapHas(c.cache, key) THEN c
    ELSE IF /\ MapHas(c.ttl, key)
            /\ c.ttl[MapGet(c.ttl, key)].value # 0
            /\ c.now > c.ttl[MapGet(c.ttl, key)].value
         THEN delete(c, key)
         ELSE c

\* clear()
clear(c) == [c EXCEPT !.cache = <<>>, !.ttl = <<>>]

\* cleanup(): for (const [key, expiry] of this.ttl.entries()), from entry i on.
RECURSIVE cleanupFrom(_, _, _)
cleanupFrom(c, entries, i) ==
    IF i > Len(entries) THEN c
    ELSE cleanupFrom(IF c.now > entries[i].value THEN delete(c, entries[i].key) ELSE c,
                     entries, i + 1)
cleanup(c) == cleanupFrom(c, c.ttl, 1)

\* new MemoryCache(); Date.now() is positive.
NewMemoryCache == [cache |-> <<>>, ttl |-> <<>>, now |-> 1,
                   last |-> [op |-> NULL, removed |-> NULL]]

CacheUnchanged ==
    UNCHANGED <<CHAT_ID, greeting, orders, notifications, clock, sendCount,
                lastSent, poll, checkout, snd, statusReq, failures, hist,
                chatMessages, callbacks, fmt, store_locations,
                addresses, stock, order_items, cart>>

CacheSet(key, value, ttlSeconds) ==
    /\ cache' = [set(cache, key, value, ttlSeconds) EXCEPT
                    !.last = [op |-> "set", removed |-> firstKey(cache)]]
    /\ CacheUnchanged

CacheGet(key) ==
    /\ cache' = [get(cache, key) EXCEPT !.last = [op |-> "get", removed |-> NULL]]
    /\ CacheUnchanged

CacheDelete(key) ==
    /\ cache' = [delete(cache, key) EXCEPT !.last = [op |-> "delete", removed |-> NULL]]
    /\ CacheUnchanged

CacheClear ==
    /\ cache' = [clear(cache) EXCEPT !.last = [op |-> "clear", removed |-> NULL]]
    /\ CacheUnchanged

\* setInterval(() => cache.cleanup(), ...), or a direct call.
CacheCleanup ==
    /\ cache' = [cleanup(cache) EXCEPT !.last = [op |-> "cleanup", removed |-> NULL]]
    /\ CacheUnchanged

\* Time passes.
CacheTick ==
    /\ cache.now < MaxNow
    /\ cache' = [cache EXCEPT !.now = @ + 1]
    /\ CacheUnchanged

----------------------------------------------------------------------------
(* The tables and objects outside the dispatcher, at the start *)

ProductIds == {"p1", "p2"}

InitShop ==
    /\ addresses = NoAddresses
    /\ stock = [p \in ProductIds |-> 0]
    /\ order_items = [o \in OrderIds |-> <<>>]
    /\ cart = NoCart
    /\ cache = NewMemoryCache

----------------------------------------------------------------------------
\* The orders placed before the start have their items and their
\* notification row, which an earlier run may or may not have sent.
InitialOrderRow == [exists |-> TRUE, status |-> "pending", has_items |-> TRUE]

RECURSIVE InitialNotifications(_)
InitialNotifications(S) ==
    IF S = {} THEN {}
    ELSE LET o == CHOOSE x \in S : \A y \in S : y <= x
         IN  create_order_notification(InitialNotifications(S \ {o}), o, o)

Init ==
    /\ CHAT_ID = NULL
    /\ greeting = NULL
    /\ orders = [o \in OrderIds |-> IF o \in InitialOrders THEN InitialOrderRow
                                    ELSE NoRow]
    /\ notifications = InitialNotifications(InitialOrders)
    /\ clock = Cardinality(InitialOrders)
    /\ sendCount = [o \in OrderIds |-> 0]
    /\ lastSent = [chat |-> NULL,
                   text |-> formatOrderMessage(0, NoRow, NULL)]
    /\ poll = [p \in PollerIds |-> IdlePoll]
    /\ checkout = [o \in CheckoutOrders |-> "start"]
    /\ snd = [c \in Callers |-> IdleSend]
    /\ statusReq = IdleStatus
    /\ failures = 0
    /\ hist = [calls |-> {}]
    /\ chatMessages = [m \in MsgIds |-> NoMessage]
    /\ callbacks = <<>>
    /\ fmt = IdleFormat
    /\ store_locations = [s \in StoreIds |-> <<>>]
    /\ InitShop

\* The dispatcher and checkout: the message handler, the poll invocations,
\* sendOrderNotification and the checkout request.
Next ==
    \/ \E chat \in Chats : OnMessage(chat)
    \/ \E p \in PollerIds : PollTick(p)
    \/ \E p \in PollerIds : PollDelay(p)
    \/ \E c \in Callers : SendFetch(c)
    \/ \E c \in Callers : SendSend(c)
    \/ \E c \in Callers : SendMark(c)
    \/ \E o \in CheckoutOrders : CheckoutInsertOrder(o)
    \/ \E o \in CheckoutOrders : CheckoutInsertItems(o)
    \/ \E o \in CheckoutOrders : CheckoutRollback(o)
    \/ \E o \in CheckoutOrders : CheckoutNotify(o)
    \/ \E o \in CheckoutOrders : CheckoutRespond(o)

Spec == Init /\ [][Next]_vars

\* The assignment handler: the order messages are in the chat (their orders
\* may have been deleted since), operators click, the callbacks are handled.
InitClaims ==
    /\ CHAT_ID = "g1"
    /\ greeting = "g1"
    /\ \E there \in BOOLEAN :
          orders = [o \in OrderIds |-> IF there /\ o \in MsgIds THEN InitialOrderRow
                                        ELSE NoRow]
    /\ notifications = {}
    /\ clock = 0
    /\ sendCount = [o \in OrderIds |-> 1]
    /\ lastSent = [chat |-> NULL, text |-> formatOrderMessage(0, NoRow, NULL)]
    /\ poll = [p \in PollerIds |-> IdlePoll]
    /\ checkout = [o \in CheckoutOrders |-> "done"]
    /\ snd = [c \in Callers |-> IdleSend]
    /\ statusReq = IdleStatus
    /\ failures = 0
    /\ hist = [calls |-> {}]
    /\ chatMessages = [m \in MsgIds |-> OrderMessage(m, InitialOrderRow)]
    /\ callbacks = <<>>
    /\ fmt = IdleFormat
    /\ store_locations = [s \in StoreIds |-> <<>>]
    /\ InitShop

NextClaims ==
    \/ \E m \in MsgIds, k \in 1..Len(TEAM_MEMBERS) : Click(m, k)
    \/ \E i \in 1..Len(callbacks) : CallbackFetch(i)
    \/ \E i \in 1..Len(callbacks) : CallbackEdit(i)
    \/ \E i \in 1..Len(callbacks) : CallbackAnswer(i)
    \/ \E i \in 1..Len(callbacks) : CallbackCatch(i)

SpecClaims == InitClaims /\ [][NextClaims]_vars

\* The assignment handler when callback queries with any data arrive.
NextPayloads ==
    \/ \E m \in MsgIds, k \in 1..Len(TEAM_MEMBERS) : Click(m, k)
    \/ \E m \in MsgIds, data \in ForeignPayloads : Payload(m, data)
    \/ \E i \in 1..Len(callbacks) : CallbackFetch(i)
    \/ \E i \in 1..Len(callbacks) : CallbackEdit(i)
    \/ \E i \in 1..Len(callbacks) : CallbackAnswer(i)
    \/ \E i \in 1..Len(callbacks) : CallbackCatch(i)

SpecPayloads == InitClaims /\ [][NextPayloads]_vars

\* The inputs: order lines of three stores (one of them with an integer-like
\* name, one deleted since: order_items.store_id ON DELETE SET NULL), totals
\* from 20.00 up, and the store_locations rows of the stores.
LineItems ==
    { [store_name |-> "Zara", store_id |-> "s1", product_name |-> p] : p \in {"p1", "p2"} }
    \cup { [store_name |-> "24", store_id |-> "s2", product_name |-> p] : p \in {"p1"} }
    \cup { [store_name |-> "Noon", store_id |-> NULL, product_name |-> p] : p \in {"p1"} }

LocationRow == [found |-> TRUE, location_type |-> "villa"]

LineLists == UNION { [1..n -> LineItems] : n \in 0..MaxLines }

InitFormat ==
    /\ CHAT_ID = "g1"
    /\ greeting = "g1"
    /\ orders = [o \in OrderIds |-> IF o \in InitialOrders THEN InitialOrderRow
                                    ELSE NoRow]
    /\ notifications = {}
    /\ clock = 0
    /\ sendCount = [o \in OrderIds |-> 0]
    /\ lastSent = [chat |-> NULL, text |-> formatOrderMessage(0, NoRow, NULL)]
    /\ poll = [p \in PollerIds |-> IdlePoll]
    /\ checkout = [o \in CheckoutOrders |-> "done"]
    /\ snd = [c \in Callers |-> IdleSend]
    /\ statusReq = IdleStatus
    /\ failures = 0
    /\ hist = [calls |-> {}]
    /\ chatMessages = [m \in MsgIds |-> NoMessage]
    /\ callbacks = <<>>
    /\ \/ /\ \E lines \in LineLists :
                fmt = [IdleFormat EXCEPT !.pc = "called", !.total = 12000,
                                         !.lines = lines]
          /\ store_locations \in
                [StoreIds -> {<<>>, <<LocationRow>>, <<LocationRow, LocationRow>>}]
       \/ /\ \E cents \in 0..MaxCents :
                fmt = [IdleFormat EXCEPT !.pc = "called",
                          !.total = DELIVERY_FEE * 100 + cents,
                          !.lines = << [store_name |-> "Zara", store_id |-> "s1",
                                        product_name |-> "p1"] >>]
          /\ store_locations = [s \in StoreIds |-> <<LocationRow>>]
    /\ InitShop

NextFormat ==
    \/ FormatStart
    \/ FormatPickup

SpecFormat == InitFormat /\ [][NextFormat]_vars

\* A poll of a backlog: the process starts with many rows in
\* telegram_notifications, some sent, some of type order_update, created in
\* the order of the order ids or in the opposite order; the channel is known.
BacklogRow(o, n, sentIds, updateIds, reversed) ==
    [id |-> o, order_id |-> o,
     notification_type |-> IF o \in updateIds THEN "order_update" ELSE "new_order",
     sent |-> o \in sentIds,
     sent_at |-> IF o \in sentIds THEN NOW ELSE NULL,
     created_at |-> IF reversed THEN n + 1 - o ELSE o]

InitBatch ==
    /\ CHAT_ID = "g1"
    /\ greeting = "g1"
    /\ orders = [o \in 1..MaxBacklog |-> InitialOrderRow]
    /\ \E n \in (MaxBacklog - 4)..MaxBacklog, sentIds \in SUBSET {1, 3},
          updateIds \in SUBSET {2}, reversed \in BOOLEAN :
          notifications = { BacklogRow(o, n, sentIds, updateIds, reversed) : o \in 1..n }
    /\ clock = MaxBacklog
    /\ sendCount = [o \in 1..MaxBacklog |-> 0]
    /\ lastSent = [chat |-> NULL, text |-> formatOrderMessage(0, NoRow, NULL)]
    /\ poll = [p \in PollerIds |-> IdlePoll]
    /\ checkout = [o \in CheckoutOrders |-> "done"]
    /\ snd = [c \in Callers |-> IdleSend]
    /\ statusReq = IdleStatus
    /\ failures = 0
    /\ hist = [calls |-> {}]
    /\ chatMessages = [m \in MsgIds |-> NoMessage]
    /\ callbacks = <<>>
    /\ fmt = IdleFormat
    /\ store_locations = [s \in StoreIds |-> <<>>]
    /\ InitShop

NextBatch ==
    \/ PollTick(<<"poll", 1>>)
    \/ PollDelay(<<"poll", 1>>)
    \/ SendFetch(<<"poll", 1>>)
    \/ SendSend(<<"poll", 1>>)
    \/ SendMark(<<"poll", 1>>)

SpecBatch == InitBatch /\ [][NextBatch]_vars

\* The dispatcher and the order-status endpoints.
NextStatus ==
    \/ \E chat \in Chats : OnMessage(chat)
    \/ \E p \in PollerIds : PollTick(p)
    \/ \E p \in PollerIds : PollDelay(p)
    \/ \E c \in PollerIds : SendFetch(c)
    \/ \E c \in PollerIds : SendSend(c)
    \/ \E c \in PollerIds : SendMark(c)
    \/ \E o \in OrderIds, s \in RequestStatuses, e \in StatusEndpoints :
          StatusUpdate(o, s, e)
    \/ StatusNotify

SpecStatus == Init /\ [][NextStatus]_vars

\* The dispatcher under fair scheduling, one poll invocation at a time: the
\* timer keeps firing and every awaited call of the poll invocation and of
\* sendOrderNotification completes.  Failures are transient: at most
\* MaxFailures of them occur.  Checkout requests come and go as they please.
LivePoller == <<"poll", 1>>
LiveCallers == {LivePoller} \cup CheckoutIds

NextLive ==
    \/ \E chat \in Chats : OnMessage(chat)
    \/ PollTick(LivePoller)
    \/ PollDelay(LivePoller)
    \/ \E c \in LiveCallers : SendFetch(c)
    \/ \E c \in LiveCallers : SendSend(c)
    \/ \E c \in LiveCallers : SendMark(c)
    \/ \E o \in CheckoutOrders : CheckoutInsertOrder(o)
    \/ \E o \in CheckoutOrders : CheckoutInsertItems(o)
    \/ \E o \in CheckoutOrders : CheckoutRollback(o)
    \/ \E o \in CheckoutOrders : CheckoutNotify(o)
    \/ \E o \in CheckoutOrders : CheckoutRespond(o)

Fairness ==
    /\ WF_vars(PollTick(LivePoller))
    /\ WF_vars(PollDelay(LivePoller))
    /\ \A c \in LiveCallers :
          WF_vars(SendFetch(c)) /\ WF_vars(SendSend(c)) /\ WF_vars(SendMark(c))

SpecLive == Init /\ [][NextLive]_vars /\ Fairness

\* A poll of a backlog whose oldest rows can never be sent: the orders of the
\* first dead rows cannot be resolved, the orders of the rows after them can.
\* The timer keeps firing and every awaited call completes.
InitBlocked ==
    /\ CHAT_ID = "g1"
    /\ greeting = "g1"
    /\ \E dead \in 0..BATCH_LIMIT :
          orders = [o \in 1..(BATCH_LIMIT + 1) |->
                        IF o <= dead THEN NoRow ELSE InitialOrderRow]
    /\ notifications = InitialNotifications(1..(BATCH_LIMIT + 1))
    /\ clock = BATCH_LIMIT + 1
    /\ sendCount = [o \in 1..(BATCH_LIMIT + 1) |-> 0]
    /\ lastSent = [chat |-> NULL, text |-> formatOrderMessage(0, NoRow, NULL)]
    /\ poll = [p \in PollerIds |-> IdlePoll]
    /\ checkout = [o \in CheckoutOrders |-> "done"]
    /\ snd = [c \in Callers |-> IdleSend]
    /\ statusReq = IdleStatus
    /\ failures = 0
    /\ hist = [calls |-> {}]
    /\ chatMessages = [m \in MsgIds |-> NoMessage]
    /\ callbacks = <<>>
    /\ fmt = IdleFormat
    /\ store_locations = [s \in StoreIds |-> <<>>]
    /\ InitShop

\* The one poll invocation runs its steps one after the other, so fairness
\* of its next step is fairness of each of its awaited calls and of the timer.
SpecBlocked == InitBlocked /\ [][NextBatch]_vars /\ WF_vars(NextBatch)

\* The order-status endpoints and the stock: an order with its lines, in any
\* status, and the stock of the products.
OrderLines ==
    { <<>>,
      << [product_id |-> "p1", quantity |-> 1] >>,
      << [product_id |-> "p1", quantity |-> 2], [product_id |-> "p2", quantity |-> 1] >>,
      << [product_id |-> "p1", quantity |-> 1], [product_id |-> "p1", quantity |-> 2] >>,
      << [product_id |-> NULL, quantity |-> 1], [product_id |-> "p2", quantity |-> 2] >> }

InitStock ==
    /\ CHAT_ID = NULL
    /\ greeting = NULL
    /\ \E status \in {"pending", "confirmed", "cancelled"} :
          orders = [o \in OrderIds |->
                       IF o \in InitialOrders
                       THEN [InitialOrderRow EXCEPT !.status = status] ELSE NoRow]
    /\ notifications = InitialNotifications(InitialOrders)
    /\ clock = Cardinality(InitialOrders)
    /\ sendCount = [o \in OrderIds |-> 0]
    /\ lastSent = [chat |-> NULL, text |-> formatOrderMessage(0, NoRow, NULL)]
    /\ poll = [p \in PollerIds |-> IdlePoll]
    /\ checkout = [o \in CheckoutOrders |-> "done"]
    /\ snd = [c \in Callers |-> IdleSend]
    /\ statusReq = IdleStatus
    /\ failures = 0
    /\ hist = [calls |-> {}]
    /\ chatMessages = [m \in MsgIds |-> NoMessage]
    /\ callbacks = <<>>
    /\ fmt = IdleFormat
    /\ store_locations = [s \in StoreIds |-> <<>>]
    /\ addresses = NoAddresses
    /\ stock \in [ProductIds -> {1, 5}]
    /\ \E lines \in OrderLines :
          order_items = [o \in OrderIds |-> IF o \in InitialOrders THEN lines ELSE <<>>]
    /\ cart = NoCart
    /\ cache = NewMemoryCache

NextStock ==
    \/ \E o \in OrderIds, s \in RequestStatuses, e \in StatusEndpoints :
          StatusUpdate(o, s, e)
    \/ StatusNotify

SpecStock == InitStock /\ [][NextStock]_vars

\* Add-to-cart requests of one user for one product, running concurrently.
NextCart ==
    \/ \E r \in CartReqIds, q \in Quantities : AddToCartSelect(r, q)
    \/ \E r \in CartReqIds : AddToCartUpdate(r)
    \/ \E r \in CartReqIds : AddToCartInsert(r)

SpecCart == Init /\ [][NextCart]_vars

\* The calls on the cache instance, in any order, as time passes.
NextCache ==
    \/ \E key \in CacheKeys, value \in CacheValues, ttlSeconds \in TtlSeconds :
          CacheSet(key, value, ttlSeconds)
    \/ \E key \in CacheKeys : CacheGet(key)
    \/ \E key \in CacheKeys : CacheDelete(key)
    \/ CacheClear
    \/ CacheCleanup
    \/ CacheTick

SpecCache == Init /\ [][NextCache]_vars

\* The address requests of the users, in any order.
NextAddresses ==
    \/ \E u \in UserIds, d \in BOOLEAN : AddressCreate(u, d)
    \/ \E u \in UserIds, id \in AddressIds, d \in BOOLEAN : AddressUpdate(u, id, d)
    \/ \E u \in UserIds, id \in AddressIds : AddressDelete(u, id)

SpecAddresses == Init /\ [][NextAddresses]_vars

----------------------------------------------------------------------------
(* The assignment handler: properties of SpecClaims *)

\* The state of an order message in the chat: assigned once its text names a
\* handler.
Assigned(m) == chatMessages[m].text.handledBy # NULL

\* C1 (as claimed): once an order message is assigned to a handler H, it stays
\* assigned to H: no later step changes its text or its keyboard, whatever
\* claims were received before the first edit was applied.
FirstClaimWins ==
    [][\A m \in MsgIds : Assigned(m) => chatMessages'[m] = chatMessages[m]]_vars

\* C7: a callback query with data 'handled' never edits a message and never
\* reads the database, no step of its handler changes a chat message, an
\* order or a notification row, and unless one of its chat calls was rejected
\* the only notice it shows is the non-alert "This order is already assigned".
AcknowledgementClickChangesNothing ==
    [][\A i \in 1..Len(callbacks') :
         callbacks'[i].data = <<"handled">> =>
           /\ callbacks'[i].edits = 0
           /\ callbacks'[i].dbReads = 0
           /\ callbacks'[i].pc \in {"answer", "catch", "done", "unhandled"}
           /\ ~callbacks'[i].threw =>
                /\ callbacks'[i].notices \in
                     { <<>>, << [text |-> <<"This order is already assigned">>,
                                 show_alert |-> FALSE] >> }
                /\ callbacks'[i].pc = "done" => Len(callbacks'[i].notices) = 1
           /\ (i <= Len(callbacks) /\ callbacks'[i] # callbacks[i]) =>
                /\ chatMessages' = chatMessages
                /\ orders' = orders
                /\ notifications' = notifications]_vars

\* C7 witness: a message was assigned, its acknowledgement button was clicked
\* and the click was answered.
AcknowledgementClickAnswered ==
    \E i \in 1..Len(callbacks) :
        /\ callbacks[i].data = <<"handled">>
        /\ callbacks[i].pc = "done"
        /\ ~callbacks[i].threw
        /\ Len(callbacks[i].notices) = 1
        /\ Assigned(callbacks[i].msg)

\* C8: a claim whose order fetch failed never edits a message: no step of its
\* handler changes a chat message, and when the handler completes it has
\* shown exactly one notice, an alert with an error text.
FetchFailureLeavesMessage ==
    [][\A i \in 1..Len(callbacks') :
         callbacks'[i].fetchFailed =>
           /\ callbacks'[i].edits = 0
           /\ callbacks'[i].pc # "edit"
           /\ callbacks'[i].pc = "done" =>
                /\ Len(callbacks'[i].notices) = 1
                /\ callbacks'[i].notices[1].show_alert = TRUE
                /\ callbacks'[i].notices[1].text \in
                     { <<"Error updating order">>, <<"An error occurred">> }
           /\ (i <= Len(callbacks) /\ callbacks'[i] # callbacks[i]) =>
                chatMessages' = chatMessages]_vars

\* C8 witness: a claim failed at the fetch and was answered with the alert
\* while the message was unassigned; a later claim then assigned the message.
LaterClaimSucceeded ==
    \E i, j \in 1..Len(callbacks) :
        /\ i < j
        /\ callbacks[i].fetchFailed
        /\ callbacks[i].pc = "done"
        /\ callbacks[i].notices = << [text |-> <<"Error updating order">>,
                                      show_alert |-> TRUE] >>
        /\ callbacks[j].msg = callbacks[i].msg
        /\ callbacks[j].edits = 1
        /\ callbacks[j].pc = "done"
        /\ chatMessages[callbacks[j].msg].text.handledBy = callbacks[j].handlerName

----------------------------------------------------------------------------
(* The dispatcher: properties of Spec, SpecLive, SpecStatus and SpecBatch *)

\* The new_order rows of an order in a table.
NewOrderRows(table, o) ==
    { n \in table : n.order_id = o /\ n.notification_type = "new_order" }

\* C2 (as claimed): a row whose sent flag is true is not selected by a poll
\* tick, no poll invocation delivers a message for an order whose new_order
\* row is already sent, and no step sets a sent flag back to false.
SentAtMostOnce ==
    [][/\ \A p \in PollerIds :
            (poll[p].pc = "idle" /\ poll'[p].pc = "call") =>
                \A i \in 1..Len(poll'[p].batch) :
                    poll'[p].batch[i] \in notifications /\ ~poll'[p].batch[i].sent
       /\ \A p \in PollerIds :
            (snd[p].pc = "send" /\ sendCount' # sendCount) =>
                \A n \in NewOrderRows(notifications, snd[p].orderId) : ~n.sent
       /\ \A n \in notifications : n.sent =>
            \A r \in notifications' : r.id = n.id => r.sent]_vars

MarkedOnlyAfterSend ==
    [][/\ \A n \in notifications' :
            n.sent => n.sent_at # NULL /\ sendCount'[n.order_id] >= 1
       /\ \A n \in notifications : \A r \in notifications' :
            (r.id = n.id /\ r.sent # n.sent) =>
                \E c \in Callers : /\ snd[c].pc = "mark"
                                   /\ snd[c].orderId = n.order_id
                                   /\ snd'[c].pc = "ret"
       /\ \A c \in Callers :
            (snd[c].pc = "send" /\ snd'[c].pc # "send" /\ sendCount' = sendCount) =>
                /\ snd'[c].pc = "ret"
                /\ notifications' = notifications
                /\ \A n \in NewOrderRows(notifications, snd[c].orderId) :
                      ~n.sent => \E i \in 1..Len(PollQuery(notifications')) :
                                    PollQuery(notifications')[i] = n]_vars

\* C4 witness: the send of a call has just failed: the row is unsent and
\* in the result of a poll select; another row was marked after its message
\* was delivered.
UnsentAfterSendFailure ==
    \E c \in Callers :
        /\ snd[c].pc = "ret"
        /\ snd[c].outcome = "send_failed"
        /\ sendCount[snd[c].orderId] = 0
        /\ \E n \in NewOrderRows(notifications, snd[c].orderId) :
              /\ ~n.sent
              /\ \E i \in 1..Len(PollQuery(notifications)) :
                    PollQuery(notifications)[i] = n
        /\ \E n \in notifications :
              n.sent /\ n.sent_at = NOW /\ sendCount[n.order_id] = 1

\* C5 (as claimed): a status request that moved an order to confirmed has
\* called sendOrderNotification by the time it responds.
ConfirmInvokesSend ==
    (/\ statusReq.pc = "done"
     /\ statusReq.status = "confirmed"
     /\ statusReq.was # "confirmed")
    => "status" \in hist.calls

\* C6: the batch a poll tick fetches holds exactly the min(10, n) oldest of
\* the n rows that are unsent and of type new_order at that moment, oldest
\* first; the invocation calls sendOrderNotification for the items of the
\* batch one after the other, in that order, and ends after the last.
OldestTenBatch ==
    [][\A p \in PollerIds :
        LET cand == { n \in notifications :
                        n.sent = FALSE /\ n.notification_type = "new_order" }
            b == poll'[p].batch
        IN  /\ (poll[p].pc = "idle" /\ poll'[p].pc = "call") =>
                /\ Len(b) = (IF Cardinality(cand) < 10 THEN Cardinality(cand) ELSE 10)
                /\ Len(b) <= 10
                /\ \A i \in 1..Len(b) : b[i] \in cand
                /\ \A i, j \in 1..Len(b) : i < j => b[i].created_at < b[j].created_at
                /\ \A n \in cand : (\A i \in 1..Len(b) : b[i] # n) =>
                       \A i \in 1..Len(b) : b[i].created_at < n.created_at
                /\ poll'[p].idx = 1
            /\ (poll[p].pc = "idle" /\ poll'[p].pc = "idle" /\ failures' = failures
                  /\ snd'[p] # snd[p]) => cand = {}
            /\ poll'[p].pc = "call" =>
                /\ poll'[p].idx \in 1..Len(b)
                /\ snd'[p].pc # "idle"
                /\ snd'[p].orderId = b[poll'[p].idx].order_id
            /\ (poll[p].pc = "call" /\ poll'[p] # poll[p]) =>
                IF poll[p].idx < Len(poll[p].batch)
                THEN poll'[p] = [poll[p] EXCEPT !.idx = @ + 1]
                ELSE poll'[p].pc = "idle"]_vars

\* C6 witness: a poll invocation is at the tenth item of a batch of ten while
\* an unsent new_order row outside the batch, a sent row and an order_update
\* row are in the table.
FullBatchLeavesRest ==
    \E p \in PollerIds :
        /\ poll[p].pc = "call"
        /\ Len(poll[p].batch) = 10
        /\ poll[p].idx = 10
        /\ \E n \in notifications :
              /\ ~n.sent /\ n.notification_type = "new_order"
              /\ n.order_id \notin { poll[p].batch[i].order_id : i \in 1..10 }
        /\ \E n \in notifications : n.sent /\ sendCount[n.order_id] = 0
        /\ \E n \in notifications : n.notification_type = "order_update"

\* C9: when the order lookup of sendOrderNotification returns an error, no
\* message is delivered and no notification row changes, so the unsent
\* new_order rows of the order are in the result of the next poll select; the
\* poll invocation goes on to the next item of its batch.
LookupErrorSkipsRecord ==
    [][/\ \A c \in Callers :
            (snd[c].pc = "fetch" /\ snd'[c].pc # "fetch" /\ snd'[c].pc # "send") =>
                /\ snd'[c].pc = "ret"
                /\ sendCount' = sendCount
                /\ lastSent' = lastSent
                /\ notifications' = notifications
                /\ \A n \in NewOrderRows(notifications, snd[c].orderId) :
                      ~n.sent => \E i \in 1..Len(PollQuery(notifications')) :
                                    PollQuery(notifications')[i] = n
       /\ \A p \in PollerIds :
            (poll[p].pc = "call" /\ snd[p].pc = "ret" /\ poll'[p] # poll[p]
               /\ poll[p].idx < Len(poll[p].batch)) =>
                /\ poll'[p] = [poll[p] EXCEPT !.idx = @ + 1]
                /\ snd'[p].pc # "idle"
                /\ snd'[p].orderId = poll[p].batch[poll[p].idx + 1].order_id]_vars

\* C9 witness: the lookup for the first item of a batch of two has just
\* returned an error: no message was delivered for the order, its row is
\* unsent, and the invocation has the second item ahead.
SkippedWithNextAhead ==
    \E p \in PollerIds :
        /\ poll[p].pc = "call"
        /\ poll[p].idx = 1
        /\ Len(poll[p].batch) = 2
        /\ snd[p].pc = "ret"
        /\ snd[p].outcome = "lookup_error"
        /\ sendCount[snd[p].orderId] = 0
        /\ \E n \in NewOrderRows(notifications, snd[p].orderId) : ~n.sent

\* C10 (as claimed): once the channel id is learned, no later step changes it.
ChannelNeverChanges ==
    [][CHAT_ID # NULL => CHAT_ID' = CHAT_ID]_vars

\* C10 (amended): the channel id is unset at start; it changes only to the
\* id of a chat of type group or supergroup and never back to unset; every
\* order message is delivered to the channel id current at the send.
ChannelFollowsGroups ==
    /\ CHAT_ID = NULL
    /\ [][/\ CHAT_ID' # CHAT_ID =>
               /\ CHAT_ID' # NULL
               /\ \E chat \in Chats :
                     chat.id = CHAT_ID' /\ chat.type \in {"group", "supergroup"}
               /\ greeting' = CHAT_ID'
          /\ sendCount' # sendCount =>
               /\ CHAT_ID' = CHAT_ID
               /\ CHAT_ID # NULL
               /\ lastSent'.chat = CHAT_ID]_vars

\* C10 witness: an order message went to the first channel learned, then a
\* message from another group replaced the channel id.
ChannelReplaced ==
    /\ lastSent.chat = "g1"
    /\ CHAT_ID = "g2"
    /\ greeting = "g2"

\* C11 (as claimed): no failure of a call made by the callback_query handler,
\* its catch block included, ends as a rejection that nothing handles.
NoUnhandledRejection ==
    \A i \in 1..Len(callbacks) : callbacks[i].pc # "unhandled"

----------------------------------------------------------------------------
(* formatOrderMessage: properties of SpecFormat *)

\* The financial lines and the order-details blocks are built before the
\* first await.
Rendered == fmt.pc \in {"pickup", "done", "threw"}

\* C12 (as claimed): for a total of T cents, T >= 2000, the rendered
\* commission is 5% of T - 2000 rounded to the cent (a half cent up), the
\* rendered payout is T - 2000 less the commission, and the two add up to
\* T - 2000.
CommissionArithmetic ==
    (Rendered /\ fmt.total >= 2000) =>
        LET afterFee == fmt.total - 2000
        IN  /\ fmt.commission = (afterFee * 5 + 50) \div 100
            /\ fmt.storePayout = afterFee - fmt.commission
            /\ fmt.commission + fmt.storePayout = afterFee

\* The store names of the lines in the order of their first appearance.
RECURSIVE FirstAppearance(_)
FirstAppearance(lines) ==
    IF lines = <<>> THEN <<>>
    ELSE LET rest == FirstAppearance(SubSeq(lines, 1, Len(lines) - 1))
             name == lines[Len(lines)].store_name
         IN  IF \E i \in 1..Len(rest) : rest[i] = name THEN rest
             ELSE Append(rest, name)

\* C13 (as claimed): the order-details blocks are one per store name, in the
\* order of the names' first appearance in the lines, and the lines of a
\* block are the lines of that store in their relative order.
BlocksInFirstAppearanceOrder ==
    Rendered =>
        /\ [i \in 1..Len(fmt.details) |-> fmt.details[i].key]
              = FirstAppearance(fmt.lines)
        /\ \A i \in 1..Len(fmt.details) :
              LET OfStore(l) == l.store_name = fmt.details[i].key
              IN  fmt.details[i].value = SelectSeq(fmt.lines, OfStore)

\* C14 (as claimed): once the message is built, the stores with a pickup
\* entry are the stores with an order-details block, each with exactly one
\* entry: the location fields if the store has a store_locations row, the
\* contact-the-owner lines if it has none.
OnePickupEntryPerStore ==
    fmt.pc = "done" =>
        /\ { fmt.pickup[i].store_name : i \in 1..Len(fmt.pickup) }
              = { fmt.details[i].key : i \in 1..Len(fmt.details) }
        /\ \A i, j \in 1..Len(fmt.pickup) :
              fmt.pickup[i].store_name = fmt.pickup[j].store_name => i = j
        /\ failures = 0 =>
              \A i \in 1..Len(fmt.pickup) :
                  fmt.pickup[i].kind = "location"
                      <=> store_locations[fmt.pickup[i].store_id] # <<>>

\* C15 (as claimed): no failed store_locations lookup, error result or
\* exception, keeps formatOrderMessage from producing the message.
LookupFailureDoesNotAbort ==
    fmt.pc # "threw"

----------------------------------------------------------------------------
(* The assignment handler: further properties *)

\* handle_<orderId>_<handler>
WellFormedClaim(data) == Len(data) = 3 /\ data[1] = "handle"

\* C16 (as claimed): a callback query whose data is neither 'handled' nor a
\* well-formed claim is ignored: no edit, no database read, no notice.
ForeignPayloadIgnored ==
    \A i \in 1..Len(callbacks) :
        (callbacks[i].data # <<"handled">> /\ ~WellFormedClaim(callbacks[i].data)) =>
            /\ callbacks[i].edits = 0
            /\ callbacks[i].dbReads = 0
            /\ callbacks[i].notices = <<>>

\* C17: no step of the callback handler changes an order row or a
\* notification row, and a chat message changes only by the edit of a claim
\* made on that very message, which keeps it the message of the same order.
ClaimChangesOnlyItsMessage ==
    [][/\ orders' = orders
       /\ notifications' = notifications
       /\ \A m \in MsgIds :
            chatMessages'[m] # chatMessages[m] =>
                /\ chatMessages'[m].order = chatMessages[m].order
                /\ \E i \in 1..Len(callbacks) :
                      /\ callbacks[i].msg = m
                      /\ callbacks[i].pc = "edit"
                      /\ callbacks'[i].edits = callbacks[i].edits + 1]_vars

\* C17 witness: a claim on one message was accepted and a claim on the other
\* failed; the first message is assigned, the second is as it was sent.
OneAssignedOtherUntouched ==
    \E i, j \in 1..Len(callbacks) :
        /\ callbacks[i].msg # callbacks[j].msg
        /\ callbacks[i].pc = "done" /\ callbacks[i].edits = 1
        /\ callbacks[j].pc = "done" /\ callbacks[j].fetchFailed
        /\ chatMessages[callbacks[i].msg].text.handledBy = callbacks[i].handlerName
        /\ chatMessages[callbacks[j].msg]
              = OrderMessage(callbacks[j].msg, InitialOrderRow)

----------------------------------------------------------------------------
(* The poll loop: further properties *)

\* C18: within one invocation of pollNotifications a send starts either as
\* the first of a fresh batch or as the successor of the item before it, and
\* then only once the send of that item has returned and the wait after it is
\* over; the item sent is the one at the loop's position, and no item before
\* it in the batch was created later.
SendsInTurn ==
    [][\A p \in PollerIds :
          (poll'[p] # poll[p] /\ poll'[p].pc = "call") =>
              /\ snd'[p].orderId = poll'[p].batch[poll'[p].idx].order_id
              /\ \A k \in 1..(poll'[p].idx - 1) :
                    poll'[p].batch[k].created_at <= poll'[p].batch[poll'[p].idx].created_at
              /\ IF poll[p].pc = "idle"
                 THEN poll'[p].idx = 1
                 ELSE /\ snd[p].pc = "ret"
                      /\ poll'[p].batch = poll[p].batch
                      /\ poll'[p].idx = poll[p].idx + 1]_vars

\* C18 witness: the third send of a batch is under way, the batch is not in
\* the order of the row ids, the first send delivered its message and the
\* second one failed.
ThirdSendOfReversedBatch ==
    \E p \in PollerIds :
        /\ poll[p].pc = "call" /\ poll[p].idx = 3 /\ snd[p].pc = "fetch"
        /\ poll[p].batch[1].id > poll[p].batch[2].id
        /\ sendCount[poll[p].batch[1].order_id] = 1
        /\ sendCount[poll[p].batch[2].order_id] = 0

----------------------------------------------------------------------------
(* The notification table: further properties *)

\* C19 (as claimed): the step that inserts an order adds exactly one row for
\* it, unsent and of type new_order, and a status request that set an order
\* to confirmed has, when it ends, added an unsent row of type order_update
\* for that order.
EveryEventRecorded ==
    [][/\ \A o \in OrderIds :
            (~orders[o].exists /\ orders'[o].exists) =>
                /\ Cardinality({ n \in notifications' \ notifications :
                                    n.order_id = o }) = 1
                /\ \A n \in notifications' \ notifications :
                      n.order_id = o =>
                          n.notification_type = "new_order" /\ ~n.sent
       /\ (/\ statusReq' # statusReq
           /\ statusReq'.pc = "done"
           /\ statusReq'.status = "confirmed") =>
              \E n \in notifications' :
                  /\ n.order_id = statusReq'.order
                  /\ n.notification_type = "order_update"
                  /\ ~n.sent]_vars

\* The rows of the table that are gone after the step.
Removed(before, after) ==
    { n \in before : \A x \in after : x.id # n.id }

\* C20 (as claimed): no step removes a row of telegram_notifications.
RecordsNeverRemoved ==
    [][Removed(notifications, notifications') = {}]_vars

\* C20: a row of telegram_notifications is removed only together with its
\* order, by the rollback of a checkout whose items could not be inserted;
\* the rows of all other orders stay, and no other step removes a row.
RecordsRemovedOnlyWithOrder ==
    [][\A n \in Removed(notifications, notifications') :
          /\ n.order_id \in CheckoutOrders
          /\ checkout[n.order_id] = "rollback"
          /\ orders[n.order_id].exists
          /\ ~orders'[n.order_id].exists]_vars

\* C20 witness: a checkout was rolled back while the dispatcher had a send of
\* its own under way; the row of the rolled-back order is gone and the row
\* of the other order is in the table.
RolledBackRecordGone ==
    \E o \in CheckoutOrders :
        /\ checkout[o] = "failed"
        /\ clock >= o
        /\ NewOrderRows(notifications, o) = {}
        /\ \E q \in InitialOrders : NewOrderRows(notifications, q) # {}
        /\ \E p \in PollerIds : snd[p].pc = "send"

----------------------------------------------------------------------------
(* The sent flag: further properties *)

\* C23 (as claimed): a row is marked sent only for a message of its own
\* event: no row of type order_update, which no poll ever dispatches, has
\* sent = true.
OnlyDispatchedKindsMarked ==
    \A n \in notifications : n.notification_type = "order_update" => ~n.sent

\* C24 (as claimed): as long as no call has failed, so that every write of
\* the sent flag went through, no order has had its announcement delivered
\* to the channel more than once.
AnnouncedAtMostOnce ==
    failures = 0 => \A o \in OrderIds : sendCount[o] <= 1

AnnouncedOrdersAreComplete ==
    /\ \A o \in CheckoutOrders : checkout[o] = "failed" => sendCount[o] = 0
    /\ \A o \in OrderIds : sendCount[o] >= 1 /\ lastSent.text.order = o
                              => lastSent.text.items

----------------------------------------------------------------------------
(* Customer addresses: properties of SpecAddresses *)

\* C21: at all times every user has at most one address with is_default =
\* true, and after a request that created or updated an address with
\* is_default = true no other address of its user has the flag.
SingleDefaultAddress ==
    /\ [](\A u \in UserIds :
            Cardinality({ a \in addresses.rows : a.user_id = u /\ a.is_default }) <= 1)
    /\ [][\A new \in addresses'.rows :
            (/\ addresses'.last.op \in {"create", "update"}
             /\ addresses' # addresses
             /\ new.id = addresses'.last.id
             /\ new.is_default) =>
                \A a \in addresses'.rows :
                    (a.user_id = new.user_id /\ a.id # new.id) => ~a.is_default]_vars

\* C21 witness: a user with three addresses has just made another of them
\* the default by an update, which cleared the flag of the former default.
DefaultMovedByUpdate ==
    /\ addresses.last.op = "update"
    /\ addresses.last.cleared # {}
    /\ \E a \in addresses.rows :
          /\ a.id = addresses.last.id /\ a.is_default
          /\ Cardinality({ b \in addresses.rows : b.user_id = a.user_id }) = MaxAddresses

----------------------------------------------------------------------------
(* The stock: properties of SpecStock *)

\* The quantity of product p ordered on the lines.
RECURSIVE Ordered(_, _)
Ordered(lines, p) ==
    IF lines = <<>> THEN 0
    ELSE (IF Head(lines).product_id = p THEN Head(lines).quantity ELSE 0)
         + Ordered(Tail(lines), p)

\* C22 (as claimed): a status update that takes an order from a status other
\* than confirmed to confirmed lowers the stock of every product by the
\* quantity ordered of it on the order's lines; every other status update,
\* and every other step, leaves the stock as it is.
StockFollowsConfirmation ==
    [][IF /\ statusReq'.n = statusReq.n + 1
          /\ statusReq'.order # 0
          /\ statusReq'.status = "confirmed"
          /\ statusReq'.was # "confirmed"
       THEN \A p \in ProductIds :
               stock'[p] = stock[p] - Ordered(order_items[statusReq'.order], p)
       ELSE stock' = stock]_vars

----------------------------------------------------------------------------
(* Add to cart: properties of SpecCart *)

RECURSIVE RowsQuantity(_)
RowsQuantity(rows) ==
    IF rows = <<>> THEN 0 ELSE Head(rows).quantity + RowsQuantity(Tail(rows))

RECURSIVE RequestedQuantity(_)
RequestedQuantity(R) ==
    IF R = {} THEN 0
    ELSE LET r == CHOOSE x \in R : TRUE
         IN  (IF cart.reqs[r].result = "ok" THEN cart.reqs[r].quantity ELSE 0)
             + RequestedQuantity(R \ {r})

\* C28 (as claimed): whenever no add-to-cart request is under way, the cart
\* has at most one row for the user and the product, and the quantity in the
\* cart is the sum of the quantities of the requests that were answered with
\* success.
CartAddsUp ==
    (\A r \in CartReqIds : cart.reqs[r].pc \in {"idle", "done"}) =>
        /\ Len(cart.rows) <= 1
        /\ RowsQuantity(cart.rows) = RequestedQuantity(CartReqIds)

----------------------------------------------------------------------------
(* MemoryCache: properties of SpecCache *)

\* C29: the cache never holds more than maxSize entries, and the value map
\* and the expiry map have the same keys, each key once.
CacheWithinSize ==
    /\ Len(cache.cache) <= maxSize
    /\ MapKeys(cache.cache) = MapKeys(cache.ttl)
    /\ Cardinality(MapKeys(cache.cache)) = Len(cache.cache)
    /\ Len(cache.ttl) = Len(cache.cache)

\* C29 witness: time has passed and a set on the full cache has just removed
\* the oldest entry; the cache is full again.
FullCacheEvictedOldest ==
    /\ cache.last.op = "set"
    /\ cache.last.removed # NULL
    /\ ~MapHas(cache.cache, cache.last.removed)
    /\ Len(cache.cache) = maxSize
    /\ cache.now > 1

====
